---------------------------- MODULE Spec2Model ----------------------------
(***************************************************************************)
(* Snapshot recovery of the Merkle tree (metadata_calculator/recovery.rs). *)
(*                                                                         *)
(* Two specifications share the module:                                    *)
(*   SpecChunks  the pure functions SnapshotParameters::chunk_count and    *)
(*               AsyncTreeRecovery::hashed_key_ranges, the latter driven   *)
(*               as the iterator the code returns;                         *)
(*   Spec        GenericAsyncTree::ensure_ready and the runs of            *)
(*               AsyncTreeRecovery::recover on one persistent tree, with   *)
(*               the chunk workers interleaved at their await points.      *)
(*                                                                         *)
(* 256-bit hashed keys are scaled to KeyBits bits; every operation on them *)
(* keeps the overflow behaviour of U256 at that width.                     *)
(***************************************************************************)
EXTENDS Integers, Sequences, FiniteSets, TLC

\* ------------------------------------------------------------------ bounds

\* Width of a hashed key (U256 in the code), scaled.
KeyBits == 8

\* Largest chunk count handed to hashed_key_ranges in SpecChunks.
MaxCount == 15

\* Largest RecoveryOptions::chunk_count of a recovery run in Spec.
MaxChunkCount == 3

\* Largest number of distinct hashed keys in the Postgres snapshot.
MaxEntries == 2

\* ------------------------------------------------------------- U256 (scaled)

RECURSIVE Pow2(_)
Pow2(n) == IF n = 0 THEN 1 ELSE 2 * Pow2(n - 1)

\* U256::MAX
KeyMax == Pow2(KeyBits) - 1

Min(a, b) == IF a <= b THEN a ELSE b

\* SnapshotParameters::DESIRED_CHUNK_SIZE
DESIRED_CHUNK_SIZE == 200000

\* zksync_utils::ceil_div(a, b): the ceiling of a / b.
CeilDiv(a, b) == (a + b - 1) \div b

\* SnapshotParameters::chunk_count
ChunkCount(log_count) == CeilDiv(log_count, DESIRED_CHUNK_SIZE)

\* hashed_key_ranges: `stride` after the adjustment of lines 283-289.
Stride(count) ==
    LET stride == KeyMax \div count
    IN  IF stride < KeyMax THEN stride + 1 ELSE stride

\* hashed_key_ranges: `stride_minus_one`.
StrideMinusOne(count) ==
    LET stride == KeyMax \div count
    IN  IF stride < KeyMax THEN (stride + 1) - 1 ELSE stride

\* `stride * i` panics when the product does not fit the key width, and the
\* function asserts count > 0.
HashedKeyRangePanics(count, i) ==
    \/ count <= 0
    \/ Stride(count) * i > KeyMax

HashedKeyRangeNoSaturation(count, i) ==
    LET start == Stride(count) * i
    IN  [start |-> start, end |-> (StrideMinusOne(count) + start) % (KeyMax + 1)]

\* The i-th item (0-based) of the iterator hashed_key_ranges(count) returns.
HashedKeyRange(count, i) ==
    LET start       == Stride(count) * i
        sum         == StrideMinusOne(count) + start
        is_overflow == sum > KeyMax
        end         == IF is_overflow THEN KeyMax ELSE sum
    IN  [start |-> start, end |-> end]

\* hashed_key_ranges(count).collect()
HashedKeyRanges(count) == [i \in 1..count |-> HashedKeyRange(count, i - 1)]


\* ------------------------------------------------------------------ state

VARIABLES
    \* SpecChunks: SnapshotParameters::log_count, the chunk count derived
    \* from it (-1: not yet computed), the position of the iterator returned
    \* by hashed_key_ranges (-1: not yet created), the ranges it has yielded,
    \* and whether the call panicked.
    log_count, count, iter_i, ranges, panicked,
    \* Source store (Postgres): the snapshot's tree entries in key order, the
    \* root hash in the metadata of the snapshot L1 batch, and the snapshot
    \* L1 batch the store holds when ensure_ready runs (0: none).
    pgEntries, pgRootHash, pgSnapshotBatch,
    \* Durable state of the tree.
    treeKind, treeEntries, recovered_version,
    \* RecoveryOptions and the pool.
    chunk_count, concurrency_limit, pool_max_size,
    \* One call of ensure_ready / recover.
    phase, entry, result, snapshot, remaining, wpc, all_entries, stop,
    observedStop,
    \* The event sink (options.events): the arguments of recovery_started;
    \* RecoveryHealthUpdater::recovered_chunk_count; and, for the tests'
    \* TestEventListener, its stop_threshold (0: the sink is the
    \* RecoveryHealthUpdater) and processed_chunk_count.
    started, recovered_chunk_count, stop_threshold, processed_chunk_count,
    \* What happened on this tree before the current run: how the earlier runs
    \* ended, whether the expected root hash changed, and how many extends
    \* have completed on the tree in the runs before the current one.
    history, root_changed, extended_before,
    \* The calls of the current run in program order: those of the
    \* coordinator (recover) and those of each chunk task.
    coord_log, task_log

chunkVars == <<log_count, count, iter_i, ranges, panicked>>
pgVars    == <<pgEntries, pgRootHash, pgSnapshotBatch>>
treeVars  == <<treeKind, treeEntries, recovered_version>>
optVars   == <<chunk_count, concurrency_limit, pool_max_size>>
runVars   == <<phase, entry, result, snapshot, remaining, wpc, all_entries,
               stop, observedStop>>
sinkVars  == <<started, recovered_chunk_count, stop_threshold,
               processed_chunk_count>>
histVars  == <<history, root_changed, extended_before>>
logVars   == <<coord_log, task_log>>
vars == <<chunkVars, pgVars, treeVars, optVars, runVars, sinkVars, histVars,
          logVars>>

\* ------------------------------------------- SpecChunks: the pure functions

\* Storage log counts of a snapshot miniblock: the values of the unit test
\* calculating_chunk_count, zero, and both sides of every multiple of the
\* chunk size up to MaxCount chunks.
LogCounts ==
    {0, 100, 160000000, 160000001}
        \cup {k * DESIRED_CHUNK_SIZE + d : k \in 0..(MaxCount - 1), d \in {0, 1}}

\* SnapshotParameters::chunk_count(), as ensure_ready calls it (line 211).
ChunkCountCall ==
    /\ count = -1
    /\ count' = ChunkCount(log_count)
    /\ UNCHANGED <<log_count, iter_i, ranges, panicked>>

\* hashed_key_ranges(count): the assertion and the creation of the iterator.
\* Counts beyond MaxCount are outside the scaled key width and not iterated.
HashedKeyRangesCall ==
    /\ count >= 0
    /\ count <= MaxCount
    /\ iter_i = -1
    /\ ~panicked
    /\ IF count > 0
          THEN iter_i' = 0 /\ panicked' = FALSE
          ELSE iter_i' = iter_i /\ panicked' = TRUE
    /\ UNCHANGED <<log_count, count, ranges>>

\* One next() of the iterator, collected into `ranges`.
IteratorNext ==
    /\ iter_i >= 0
    /\ iter_i < count
    /\ ~panicked
    /\ IF HashedKeyRangePanics(count, iter_i)
          THEN panicked' = TRUE /\ UNCHANGED <<iter_i, ranges>>
          ELSE /\ ranges' = Append(ranges, HashedKeyRange(count, iter_i))
               /\ iter_i' = iter_i + 1
               /\ panicked' = FALSE
    /\ UNCHANGED <<log_count, count>>

ChunkVarsIdle ==
    /\ log_count = 0
    /\ count = -1
    /\ iter_i = -1
    /\ ranges = <<>>
    /\ panicked = FALSE


\* --------------------------------------------- source store and tree (§4.7)

\* Hashed keys the snapshots are drawn from: both ends of the key space, the
\* last key of the first of three chunks and the first key of the second of
\* two chunks.
SnapshotKeys == {0, KeyMax \div 3, (KeyMax + 1) \div 2, KeyMax}

RECURSIVE SortedKeys(_)
SortedKeys(S) ==
    IF S = {} THEN <<>>
    ELSE LET m == CHOOSE x \in S : \A y \in S : x <= y
         IN  <<m>> \o SortedKeys(S \ {m})

\* The storage logs of the snapshot miniblock as tree entries in key order:
\* one entry per key, its leaf index its rank, and for a key of `dups` a
\* second log of the same hashed key carrying a non-final value.
RECURSIVE EntriesOf(_, _, _)
EntriesOf(keys, dups, rank) ==
    IF keys = <<>> THEN <<>>
    ELSE LET k == Head(keys)
             e == [key |-> k, value |-> 1, leaf_index |-> rank]
         IN  (IF k \in dups THEN <<[e EXCEPT !.value = 2], e>> ELSE <<e>>)
                 \o EntriesOf(Tail(keys), dups, rank + 1)

\* The snapshots: up to MaxEntries keys, of which the largest may carry the
\* second log (so the repeated key closes its chunk, behind any other entry
\* of the chunk).
Snapshots ==
    { EntriesOf(SortedKeys(p[1]), p[2], 1) :
        p \in { q \in (SUBSET SnapshotKeys) \X (SUBSET SnapshotKeys) :
                    /\ Cardinality(q[1]) <= MaxEntries
                    /\ q[2] \subseteq q[1]
                    /\ Cardinality(q[2]) <= 1
                    /\ \A d \in q[2] : \A k \in q[1] : k <= d } }

SeqRange(s) == { s[i] : i \in DOMAIN s }

InRange(key, chunk) == chunk.start <= key /\ key <= chunk.end

\* storage_logs_dal().get_tree_entries_for_miniblock(miniblock, key_chunk)
GetTreeEntriesForMiniblock(pg, key_chunk) ==
    SelectSeq(pg, LAMBDA e : InRange(e.key, key_chunk))

\* storage_logs_dal().get_chunk_starts_for_miniblock(miniblock, key_chunks):
\* per chunk the entry with the lowest key (<<e>>), or <<>> for none.
GetChunkStartsForMiniblock(pg, key_chunks) ==
    [i \in DOMAIN key_chunks |->
        LET es == GetTreeEntriesForMiniblock(pg, key_chunks[i])
        IN  IF es = <<>> THEN <<>> ELSE <<Head(es)>>]

\* TreeEntry::empty(key)
EmptyEntry(key) == [key |-> key, value |-> 0, leaf_index |-> 0]

\* TreeEntry::is_empty
IsEmpty(e) == e.leaf_index = 0 /\ e.value = 0

\* AsyncTreeRecovery::entries(keys), for one key
TreeLookup(tree, key) ==
    IF \E e \in tree : e.key = key
       THEN CHOOSE e \in tree : e.key = key
       ELSE EmptyEntry(key)

\* AsyncTreeRecovery::extend(entries): entries already present stay as they are.
TreeExtend(tree, entries) ==
    tree \cup { e \in SeqRange(entries) : \A t \in tree : t.key /= e.key }

\* AsyncTreeRecovery::root_hash(): a collision-free digest of the contents.
RootHash(tree) == [digest |-> tree]

\* The snapshot's entries with one entry per key (the first in key order).
SnapshotTree(pg) ==
    { pg[i] : i \in { j \in DOMAIN pg : \A k \in 1..(j - 1) : pg[k].key /= pg[j].key } }

\* A root hash that belongs to another state of the ledger.
OtherRootHash(pg) ==
    RootHash(SnapshotTree(pg) \cup {[key |-> KeyMax, value |-> 3, leaf_index |-> 0]})

\* snapshot_l1_batch(pool): 0 stands for None.
SnapshotL1Batch(pool_batch) == 0

\* The L1 batch of the snapshot the trees of this model recover from.
SnapshotBatch == 1


\* ------------------------------------------------------------ chunk filter

FilterChunksFailsLeafIndexOnly(tree, pg, key_chunks) ==
    LET chunk_starts == GetChunkStartsForMiniblock(pg, key_chunks)
    IN  \E i \in DOMAIN key_chunks :
            /\ chunk_starts[i] /= <<>>
            /\ LET db_entry   == chunk_starts[i][1]
                   tree_entry == TreeLookup(tree, db_entry.key)
               IN  /\ ~IsEmpty(tree_entry)
                   /\ tree_entry.leaf_index /= db_entry.leaf_index

\* filter_chunks, the error of lines 337-342: a chunk start found in the tree
\* with another value or leaf index.
FilterChunksFails(tree, pg, key_chunks) ==
    LET chunk_starts == GetChunkStartsForMiniblock(pg, key_chunks)
    IN  \E i \in DOMAIN key_chunks :
            /\ chunk_starts[i] /= <<>>
            /\ LET db_entry   == chunk_starts[i][1]
                   tree_entry == TreeLookup(tree, db_entry.key)
               IN  /\ ~IsEmpty(tree_entry)
                   /\ ~(tree_entry.value = db_entry.value
                        /\ tree_entry.leaf_index = db_entry.leaf_index)

FilterChunksKeepsPresent(tree, pg, key_chunks) ==
    LET chunk_starts == GetChunkStartsForMiniblock(pg, key_chunks)
    IN  SelectSeq([i \in DOMAIN key_chunks |-> i],
                  LAMBDA i : /\ chunk_starts[i] /= <<>>
                             /\ ~IsEmpty(TreeLookup(tree, chunk_starts[i][1].key)))

FilterChunksReversed(tree, pg, key_chunks) ==
    LET chunk_starts == GetChunkStartsForMiniblock(pg, key_chunks)
        output == SelectSeq([i \in DOMAIN key_chunks |-> i],
                    LAMBDA i : /\ chunk_starts[i] /= <<>>
                               /\ IsEmpty(TreeLookup(tree, chunk_starts[i][1].key)))
    IN  [i \in DOMAIN output |-> output[Len(output) + 1 - i]]

FilterChunksWithEmpty(tree, pg, key_chunks) ==
    LET chunk_starts == GetChunkStartsForMiniblock(pg, key_chunks)
    IN  SelectSeq([i \in DOMAIN key_chunks |-> i],
                  LAMBDA i : \/ chunk_starts[i] = <<>>
                             \/ IsEmpty(TreeLookup(tree, chunk_starts[i][1].key)))

\* filter_chunks, its output (as indices into key_chunks, in chunk order): the
\* chunks whose start exists in Postgres and is empty in the tree.
FilterChunks(tree, pg, key_chunks) ==
    LET chunk_starts == GetChunkStartsForMiniblock(pg, key_chunks)
    IN  SelectSeq([i \in DOMAIN key_chunks |-> i],
                  LAMBDA i : /\ chunk_starts[i] /= <<>>
                             /\ IsEmpty(TreeLookup(tree, chunk_starts[i][1].key)))

HasDuplicateKeysFirstWindowOnly(entries) ==
    Len(entries) >= 2 /\ entries[1].key = entries[2].key

\* recover_key_chunk, lines 385-394: two neighbours with the same key.
HasDuplicateKeys(entries) ==
    \E i \in 1..(Len(entries) - 1) : entries[i].key = entries[i + 1].key


\* ------------------------------------------------- Spec: ensure_ready, recover

ConcurrencyLimits == {1, 2}
MaxStopThreshold == 2
PoolSizes == {1, 2}
\* Under one permit a single connection is requested at a time, whatever the
\* size of the pool: one pool size stands for all.
PoolsFor(limit) == IF limit = 1 THEN {1} ELSE PoolSizes
SnapshotBatches == {0, SnapshotBatch, SnapshotBatch + 1}

\* Positions of a chunk task (the async block of lines 249-258 with
\* recover_key_chunk inlined), named by the await it is suspended at:
\*   permit   semaphore.acquire()
\*   conn     pool.access_storage(), holding a permit
\*   load     get_tree_entries_for_miniblock(), holding a connection
\*   lock     tree.lock(), connection dropped
\*   gate     tree gate held, stop flag not yet polled
\*   extend   tree.extend(), gate held
\* and by how it ended: done_ok (extended), done_c1..done_c3 (returned Ok at
\* the first, second, third poll of the stop flag), failed (returned Err),
\* dropped (try_join_all dropped it after another task's error), skipped
\* (filtered out, never created).
HoldsPermit == {"conn", "load", "lock", "gate", "extend"}
HoldsConnection == {"load"}
HoldsGate == {"gate", "extend"}
Finished == {"skipped", "done_ok", "done_c1", "done_c2", "done_c3"}

Workers == DOMAIN wpc
PermitHolders == { w \in Workers : wpc[w] \in HoldsPermit }
ConnectionHolders == { w \in Workers : wpc[w] \in HoldsConnection }
GateHolders == { w \in Workers : wpc[w] \in HoldsGate }

RunVarsIdle ==
    /\ phase = "idle"
    /\ entry = "none"
    /\ result = "none"
    /\ snapshot = <<>>
    /\ remaining = <<>>
    /\ wpc = <<>>
    /\ all_entries = <<>>
    /\ stop = FALSE
    /\ observedStop = "unread"
    /\ started = <<>>
    /\ recovered_chunk_count = 0
    /\ stop_threshold = 0
    /\ processed_chunk_count = 0
    /\ history = "none"
    /\ root_changed = FALSE
    /\ extended_before = 0
    /\ coord_log = <<>>
    /\ task_log = <<>>

\* GenericAsyncTree::ensure_ready, lines 179-206: the dispatch over the state
\* of the tree. With a snapshot batch it goes on to recover (phase
\* "dispatched").
EnsureReady ==
    /\ phase = "idle"
    /\ \E b \in SnapshotBatches :
        /\ pgSnapshotBatch' = b
        /\ LET l1_batch == SnapshotL1Batch(b)
               return(r) == /\ phase' = "returned"
                            /\ result' = r
           IN  CASE treeKind = "Ready" ->
                        /\ return("OkSome")
                        /\ UNCHANGED treeVars
                 [] treeKind = "Recovering" ->
                        /\ IF l1_batch = 0
                              THEN return("ErrSnapshotAbsent")
                              ELSE IF l1_batch /= recovered_version
                                      THEN return("ErrSnapshotDivergence")
                                      ELSE phase' = "dispatched" /\ result' = result
                        /\ UNCHANGED treeVars
                 [] treeKind = "Empty" ->
                        IF l1_batch /= 0
                           THEN /\ treeKind' = "Recovering"
                                /\ recovered_version' = l1_batch
                                /\ phase' = "dispatched" /\ result' = result
                                /\ UNCHANGED treeEntries
                           ELSE /\ treeKind' = "Ready"
                                /\ return("OkSome")
                                /\ UNCHANGED <<treeEntries, recovered_version>>
    /\ entry' = "ensure_ready"
    /\ UNCHANGED <<chunkVars, pgEntries, pgRootHash, optVars, snapshot, remaining,
                   wpc, all_entries, stop, observedStop, sinkVars, histVars,
                   logVars>>

\* A snapshot one of whose entries was changed after the recovery began (the
\* values of an unchanged snapshot are 1, and 2 for a non-final log).
SnapshotChanged(pg) == \E i \in DOMAIN pg : pg[i].value > 2

\* The source store's metadata of the snapshot batch changes between two
\* runs (or before the first), the snapshot's entries being what they were.
PgChangeRootHash ==
    /\ treeKind = "Recovering"
    /\ phase \in {"idle", "returned"}
    /\ entry /= "ensure_ready"
    /\ ~SnapshotChanged(pgEntries)
    /\ pgRootHash' = IF pgRootHash = RootHash(SnapshotTree(pgEntries))
                        THEN OtherRootHash(pgEntries)
                        ELSE RootHash(SnapshotTree(pgEntries))
    /\ UNCHANGED <<chunkVars, pgEntries, pgSnapshotBatch, treeVars, optVars,
                   runVars, sinkVars, histVars, logVars>>

\* The snapshot's storage logs change between two runs ("the snapshot
\* mutated"): one entry that was already folded into the tree gets another
\* value. It happens once, between two runs that read the same metadata.
PgChangeEntry ==
    /\ treeKind = "Recovering"
    /\ phase = "returned"
    /\ entry = "recover"
    /\ ~SnapshotChanged(pgEntries)
    /\ pgRootHash = snapshot[1].expected_root_hash
    /\ \E i \in DOMAIN pgEntries :
        /\ pgEntries[i] \in treeEntries
        /\ pgEntries' = [pgEntries EXCEPT ![i].value = 3]
    /\ UNCHANGED <<chunkVars, pgRootHash, pgSnapshotBatch, treeVars, optVars,
                   runVars, sinkVars, histVars, logVars>>

\* The event sinks a run is given: 0 for the RecoveryHealthUpdater, k >= 1
\* for a TestEventListener with stop_threshold k, which the tests (lines
\* 626-664) use under concurrency_limit 1.
StopThresholds(limit) == IF limit = 1 THEN 0..MaxStopThreshold ELSE {0}

\* The tasks of the run before whose extend took effect.
Extended == { w \in DOMAIN wpc : wpc[w] \in {"done_ok", "orphan_done"} }

\* AsyncTreeRecovery::recover, lines 228-248, on a tree in recovery: called
\* by the tests directly, after ensure_ready's dispatch, or again after a run
\* that did not finalize (a restart: new stop channel, new event sink).
\* TestEventListener::recovery_started asserts the count the test expects;
\* the model records the arguments in `started` for either sink.
Recover ==
    /\ treeKind = "Recovering"
    /\ phase \in {"idle", "dispatched", "returned"}
    /\ phase = "returned" => entry = "recover"
    /\ entry' = "recover"
    /\ snapshot' = <<[expected_root_hash |-> pgRootHash]>>
    /\ history' = IF phase /= "returned" THEN "none"
                  ELSE IF result = "OkNone" /\ history \in {"none", "cancelled"}
                          THEN "cancelled"
                          ELSE "failed"
    /\ root_changed' = (phase = "returned"
                            /\ snapshot[1].expected_root_hash /= pgRootHash)
    /\ extended_before' = IF phase /= "returned" THEN 0
                          ELSE extended_before + Cardinality(Extended)
    /\ stop' = FALSE
    /\ observedStop' = "unread"
    /\ all_entries' = [w \in 1..chunk_count |-> <<>>]
    /\ task_log' = [w \in 1..chunk_count |-> <<>>]
    /\ processed_chunk_count' = 0
    /\ stop_threshold' \in StopThresholds(concurrency_limit)
    /\ LET chunks == HashedKeyRanges(chunk_count)
       IN  IF FilterChunksFails(treeEntries, pgEntries, chunks)
              THEN /\ phase' = "returned"
                   /\ result' = "ErrSnapshotDivergence"
                   /\ remaining' = <<>>
                   /\ wpc' = [w \in 1..chunk_count |-> "skipped"]
                   /\ started' = <<>>
                   /\ recovered_chunk_count' = 0
                   /\ coord_log' = <<"filter_chunks">>
              ELSE LET remaining_chunks == FilterChunks(treeEntries, pgEntries, chunks)
                   IN  /\ phase' = "running"
                       /\ result' = "none"
                       /\ remaining' = remaining_chunks
                       /\ started' = <<chunk_count, chunk_count - Len(remaining_chunks)>>
                       /\ recovered_chunk_count' =
                            IF stop_threshold' = 0
                               THEN chunk_count - Len(remaining_chunks) ELSE 0
                       /\ coord_log' = <<"filter_chunks", "recovery_started">>
                       /\ wpc' = [w \in 1..chunk_count |->
                                    IF w \in SeqRange(remaining_chunks)
                                       THEN "permit" ELSE "skipped"]
    /\ UNCHANGED <<chunkVars, pgVars, treeVars, optVars>>

\* The stop signal is sent (watch::Sender, outside the recovery). The tests
\* move the sender into the TestEventListener, which is then the only one to
\* send it.
Stop ==
    /\ phase \in {"running", "finalizing"}
    /\ stop_threshold = 0
    /\ ~stop
    /\ stop' = TRUE
    /\ UNCHANGED <<chunkVars, pgVars, treeVars, optVars, phase, entry, result,
                   snapshot, remaining, wpc, all_entries, observedStop, sinkVars,
                   histVars, logVars>>

ChunkRecoveredLateStop ==
    IF stop_threshold = 0
       THEN /\ recovered_chunk_count' = recovered_chunk_count + 1
            /\ UNCHANGED <<started, stop_threshold, processed_chunk_count, stop>>
       ELSE /\ processed_chunk_count' = processed_chunk_count + 1
            /\ stop' = IF processed_chunk_count >= stop_threshold
                          THEN TRUE ELSE stop
            /\ UNCHANGED <<started, stop_threshold, recovered_chunk_count>>

\* options.events.chunk_recovered(): RecoveryHealthUpdater::chunk_recovered
\* (lines 102-113) or TestEventListener::chunk_recovered (lines 607-613).
ChunkRecovered ==
    IF stop_threshold = 0
       THEN /\ recovered_chunk_count' = recovered_chunk_count + 1
            /\ UNCHANGED <<started, stop_threshold, processed_chunk_count, stop>>
       ELSE /\ processed_chunk_count' = processed_chunk_count + 1
            /\ stop' = IF processed_chunk_count + 1 >= stop_threshold
                          THEN TRUE ELSE stop
            /\ UNCHANGED <<started, stop_threshold, recovered_chunk_count>>

\* The calls `made` appended to the log of task w.
Logged(w, made) == [task_log EXCEPT ![w] = @ \o made]

AcquirePermitWithoutEvent(w) ==
    /\ phase = "running"
    /\ wpc[w] = "permit"
    /\ Cardinality(PermitHolders) < concurrency_limit
    /\ wpc' = [wpc EXCEPT ![w] = "conn"]
    /\ task_log' = Logged(w, <<"acquire">>)
    /\ UNCHANGED <<chunkVars, pgVars, treeVars, optVars, phase, entry, result,
                   snapshot, remaining, all_entries, stop, observedStop, sinkVars,
                   histVars, coord_log>>

AcquirePermitUnbounded(w) ==
    /\ phase = "running"
    /\ wpc[w] = "permit"
    /\ wpc' = [wpc EXCEPT ![w] = "conn"]
    /\ task_log' = Logged(w, <<"acquire", "chunk_started">>)
    /\ UNCHANGED <<chunkVars, pgVars, treeVars, optVars, phase, entry, result,
                   snapshot, remaining, all_entries, stop, observedStop, sinkVars,
                   histVars, coord_log>>

AcquirePermitLeaking(w) ==
    /\ phase = "running"
    /\ wpc[w] = "permit"
    /\ Cardinality({ v \in Workers : wpc[v] \notin {"permit", "skipped"} })
            < concurrency_limit
    /\ wpc' = [wpc EXCEPT ![w] = "conn"]
    /\ task_log' = Logged(w, <<"acquire", "chunk_started">>)
    /\ UNCHANGED <<chunkVars, pgVars, treeVars, optVars, phase, entry, result,
                   snapshot, remaining, all_entries, stop, observedStop, sinkVars,
                   histVars, coord_log>>

\* Lines 250-254: a permit of Semaphore::new(options.concurrency_limit) is
\* granted, chunk_started is emitted, a connection is requested.
AcquirePermit(w) ==
    /\ phase = "running"
    /\ wpc[w] = "permit"
    /\ Cardinality(PermitHolders) < concurrency_limit
    /\ wpc' = [wpc EXCEPT ![w] = "conn"]
    /\ task_log' = Logged(w, <<"acquire", "chunk_started">>)
    /\ UNCHANGED <<chunkVars, pgVars, treeVars, optVars, phase, entry, result,
                   snapshot, remaining, all_entries, stop, observedStop, sinkVars,
                   histVars, coord_log>>

\* Lines 356-367: the connection is granted; first poll of the stop flag
\* (a return drops the connection, and chunk_recovered follows at line 256);
\* the query for the chunk's entries is issued.
AcquireConnection(w) ==
    /\ phase = "running"
    /\ wpc[w] = "conn"
    /\ Cardinality(ConnectionHolders) < pool_max_size
    /\ IF stop
          THEN /\ wpc' = [wpc EXCEPT ![w] = "done_c1"]
               /\ task_log' = Logged(w, <<"access_storage", "drop_storage",
                                          "chunk_recovered">>)
               /\ ChunkRecovered
          ELSE /\ wpc' = [wpc EXCEPT ![w] = "load"]
               /\ task_log' = Logged(w, <<"access_storage">>)
               /\ UNCHANGED <<sinkVars, stop>>
    /\ UNCHANGED <<chunkVars, pgVars, treeVars, optVars, phase, entry, result,
                   snapshot, remaining, all_entries, observedStop, histVars,
                   coord_log>>

\* try_join_all returns the first error: every unfinished task is dropped.
\* A task dropped while suspended in tree.extend() (line 415) is "orphaned":
\* whether that extend still takes effect is decided by
\* AsyncTreeRecovery::extend, see CompleteOrphanedExtend. Failures of the
\* store's queries are not modelled: the only worker error is the
\* duplicate-key check.
DropOthers(w) ==
    [v \in Workers |-> IF v = w THEN "failed"
                       ELSE IF wpc[v] \in Finished THEN wpc[v]
                       ELSE IF wpc[v] = "extend" THEN "orphaned"
                       ELSE "dropped"]

LoadEntriesKeepingConnection(w) ==
    /\ phase = "running"
    /\ wpc[w] = "load"
    /\ LET loaded == GetTreeEntriesForMiniblock(
                        pgEntries, HashedKeyRanges(chunk_count)[w])
           read   == <<"get_tree_entries_for_miniblock", "drop_storage">>
       IN  /\ all_entries' = [all_entries EXCEPT ![w] = loaded]
           /\ IF stop
                 THEN /\ wpc' = [wpc EXCEPT ![w] = "done_c2"]
                      /\ task_log' = Logged(w, read \o <<"chunk_recovered">>)
                      /\ ChunkRecovered
                      /\ UNCHANGED <<phase, result>>
                 ELSE IF HasDuplicateKeys(loaded)
                         THEN /\ wpc' = DropOthers(w)
                              /\ task_log' = Logged(w, read)
                              /\ phase' = "returned"
                              /\ result' = "ErrSnapshotCorruption"
                              /\ UNCHANGED <<sinkVars, stop>>
                         ELSE /\ wpc' = [wpc EXCEPT ![w] = "lock"]
                              /\ task_log' = Logged(w,
                                    <<"get_tree_entries_for_miniblock", "lock",
                                      "drop_storage">>)
                              /\ UNCHANGED <<phase, result, sinkVars, stop>>
    /\ UNCHANGED <<chunkVars, pgVars, treeVars, optVars, entry, snapshot,
                   remaining, observedStop, histVars, coord_log>>

LoadEntriesValidatingFirst(w) ==
    /\ phase = "running"
    /\ wpc[w] = "load"
    /\ LET loaded == GetTreeEntriesForMiniblock(
                        pgEntries, HashedKeyRanges(chunk_count)[w])
           read   == <<"get_tree_entries_for_miniblock", "drop_storage">>
       IN  /\ all_entries' = [all_entries EXCEPT ![w] = loaded]
           /\ IF HasDuplicateKeys(loaded)
                 THEN /\ wpc' = DropOthers(w)
                      /\ task_log' = Logged(w, read)
                      /\ phase' = "returned"
                      /\ result' = "ErrSnapshotCorruption"
                      /\ UNCHANGED <<sinkVars, stop>>
                 ELSE IF stop
                         THEN /\ wpc' = [wpc EXCEPT ![w] = "done_c2"]
                              /\ task_log' = Logged(w, read \o <<"chunk_recovered">>)
                              /\ ChunkRecovered
                              /\ UNCHANGED <<phase, result>>
                         ELSE /\ wpc' = [wpc EXCEPT ![w] = "lock"]
                              /\ task_log' = Logged(w, read \o <<"lock">>)
                              /\ UNCHANGED <<phase, result, sinkVars, stop>>
    /\ UNCHANGED <<chunkVars, pgVars, treeVars, optVars, entry, snapshot,
                   remaining, observedStop, histVars, coord_log>>

\* Lines 365-406: the entries arrive and the connection is dropped; second
\* poll of the stop flag; the check for duplicate keys; the tree gate is
\* requested.
LoadEntries(w) ==
    /\ phase = "running"
    /\ wpc[w] = "load"
    /\ LET loaded == GetTreeEntriesForMiniblock(
                        pgEntries, HashedKeyRanges(chunk_count)[w])
           read   == <<"get_tree_entries_for_miniblock", "drop_storage">>
       IN  /\ all_entries' = [all_entries EXCEPT ![w] = loaded]
           /\ IF stop
                 THEN /\ wpc' = [wpc EXCEPT ![w] = "done_c2"]
                      /\ task_log' = Logged(w, read \o <<"chunk_recovered">>)
                      /\ ChunkRecovered
                      /\ UNCHANGED <<phase, result>>
                 ELSE IF HasDuplicateKeys(loaded)
                         THEN /\ wpc' = DropOthers(w)
                              /\ task_log' = Logged(w, read)
                              /\ phase' = "returned"
                              /\ result' = "ErrSnapshotCorruption"
                              /\ UNCHANGED <<sinkVars, stop>>
                         ELSE /\ wpc' = [wpc EXCEPT ![w] = "lock"]
                              /\ task_log' = Logged(w, read \o <<"lock">>)
                              /\ UNCHANGED <<phase, result, sinkVars, stop>>
    /\ UNCHANGED <<chunkVars, pgVars, treeVars, optVars, entry, snapshot,
                   remaining, observedStop, histVars, coord_log>>

LockTreeUnguarded(w) ==
    /\ phase = "running"
    /\ wpc[w] = "lock"
    /\ wpc' = [wpc EXCEPT ![w] = "gate"]
    /\ task_log' = Logged(w, <<"locked">>)
    /\ UNCHANGED <<chunkVars, pgVars, treeVars, optVars, phase, entry, result,
                   snapshot, remaining, all_entries, stop, observedStop, sinkVars,
                   histVars, coord_log>>

\* Line 406: the tree gate (tokio Mutex) is granted.
LockTree(w) ==
    /\ phase = "running"
    /\ wpc[w] = "lock"
    /\ GateHolders = {}
    /\ wpc' = [wpc EXCEPT ![w] = "gate"]
    /\ task_log' = Logged(w, <<"locked">>)
    /\ UNCHANGED <<chunkVars, pgVars, treeVars, optVars, phase, entry, result,
                   snapshot, remaining, all_entries, stop, observedStop, sinkVars,
                   histVars, coord_log>>

PollAfterLockInverted(w) ==
    /\ phase = "running"
    /\ wpc[w] = "gate"
    /\ IF ~stop
          THEN /\ wpc' = [wpc EXCEPT ![w] = "done_c3"]
               /\ task_log' = Logged(w, <<"unlock", "chunk_recovered">>)
               /\ ChunkRecovered
          ELSE /\ wpc' = [wpc EXCEPT ![w] = "extend"]
               /\ UNCHANGED <<sinkVars, stop, task_log>>
    /\ UNCHANGED <<chunkVars, pgVars, treeVars, optVars, phase, entry, result,
                   snapshot, remaining, all_entries, observedStop, histVars,
                   coord_log>>

PollAfterLockSkipped(w) ==
    /\ phase = "running"
    /\ wpc[w] = "gate"
    /\ wpc' = [wpc EXCEPT ![w] = "extend"]
    /\ UNCHANGED <<sinkVars, stop, task_log>>
    /\ UNCHANGED <<chunkVars, pgVars, treeVars, optVars, phase, entry, result,
                   snapshot, remaining, all_entries, observedStop, histVars,
                   coord_log>>

\* Lines 409-415: third poll of the stop flag (a return drops the guard, and
\* chunk_recovered follows at line 256), then the extend is issued.
PollAfterLock(w) ==
    /\ phase = "running"
    /\ wpc[w] = "gate"
    /\ IF stop
          THEN /\ wpc' = [wpc EXCEPT ![w] = "done_c3"]
               /\ task_log' = Logged(w, <<"unlock", "chunk_recovered">>)
               /\ ChunkRecovered
          ELSE /\ wpc' = [wpc EXCEPT ![w] = "extend"]
               /\ UNCHANGED <<sinkVars, stop, task_log>>
    /\ UNCHANGED <<chunkVars, pgVars, treeVars, optVars, phase, entry, result,
                   snapshot, remaining, all_entries, observedStop, histVars,
                   coord_log>>

ExtendTreeHeadOnly(w) ==
    /\ phase = "running"
    /\ wpc[w] = "extend"
    /\ treeEntries' = TreeExtend(treeEntries, <<Head(all_entries[w])>>)
    /\ wpc' = [wpc EXCEPT ![w] = "done_ok"]
    /\ task_log' = Logged(w, <<"extend", "unlock", "chunk_recovered">>)
    /\ ChunkRecovered
    /\ UNCHANGED <<chunkVars, pgVars, treeKind, recovered_version, optVars, phase,
                   entry, result, snapshot, remaining, all_entries,
                   observedStop, histVars, coord_log>>

\* Lines 415-420 and 256: the extend completes, recover_key_chunk returns Ok,
\* the gate is released, chunk_recovered is emitted, the permit is released.
ExtendTree(w) ==
    /\ phase = "running"
    /\ wpc[w] = "extend"
    /\ treeEntries' = TreeExtend(treeEntries, all_entries[w])
    /\ wpc' = [wpc EXCEPT ![w] = "done_ok"]
    /\ task_log' = Logged(w, <<"extend", "unlock", "chunk_recovered">>)
    /\ ChunkRecovered
    /\ UNCHANGED <<chunkVars, pgVars, treeKind, recovered_version, optVars, phase,
                   entry, result, snapshot, remaining, all_entries,
                   observedStop, histVars, coord_log>>

\* An extend whose task try_join_all dropped (line 259, the task suspended at
\* line 415) takes effect after recover has returned the error - or never,
\* when this step is not taken before the restart.
CompleteOrphanedExtend(w) ==
    /\ phase = "returned"
    /\ wpc[w] = "orphaned"
    /\ treeEntries' = TreeExtend(treeEntries, all_entries[w])
    /\ wpc' = [wpc EXCEPT ![w] = "orphan_done"]
    /\ task_log' = Logged(w, <<"extend">>)
    /\ UNCHANGED <<chunkVars, pgVars, treeKind, recovered_version, optVars, phase,
                   entry, result, snapshot, remaining, all_entries, stop,
                   observedStop, sinkVars, histVars, coord_log>>

JoinAllIgnoringStop ==
    /\ phase = "running"
    /\ \A w \in Workers : wpc[w] \in Finished
    /\ observedStop' = IF stop THEN "true" ELSE "false"
    /\ phase' = "finalizing"
    /\ UNCHANGED result
    /\ UNCHANGED <<chunkVars, pgVars, treeVars, optVars, entry, snapshot,
                   remaining, wpc, all_entries, stop, sinkVars, histVars,
                   task_log>>
    /\ coord_log' = Append(coord_log, "try_join_all")

\* Lines 259-263: try_join_all returns Ok; the coordinator polls the stop flag.
JoinAll ==
    /\ phase = "running"
    /\ \A w \in Workers : wpc[w] \in Finished
    /\ IF stop
          THEN /\ observedStop' = "true"
               /\ phase' = "returned"
               /\ result' = "OkNone"
          ELSE /\ observedStop' = "false"
               /\ phase' = "finalizing"
               /\ UNCHANGED result
    /\ UNCHANGED <<chunkVars, pgVars, treeVars, optVars, entry, snapshot,
                   remaining, wpc, all_entries, stop, sinkVars, histVars,
                   task_log>>
    /\ coord_log' = Append(coord_log, "try_join_all")

FinalizeUnchecked ==
    /\ phase = "finalizing"
    /\ treeKind' = "Ready"
    /\ result' = "OkSome"
    /\ coord_log' = Append(coord_log, "finalize")
    /\ phase' = "returned"
    /\ UNCHANGED <<chunkVars, pgVars, treeEntries, recovered_version, optVars,
                   entry, snapshot, remaining, wpc, all_entries, stop,
                   observedStop, sinkVars, histVars, task_log>>

FinalizeBeforeCheck ==
    /\ phase = "finalizing"
    /\ treeKind' = "Ready"
    /\ result' = IF RootHash(treeEntries) /= snapshot[1].expected_root_hash
                    THEN "ErrRootHashMismatch" ELSE "OkSome"
    /\ coord_log' = coord_log \o <<"finalize", "root_hash">>
    /\ phase' = "returned"
    /\ UNCHANGED <<chunkVars, pgVars, treeEntries, recovered_version, optVars,
                   entry, snapshot, remaining, wpc, all_entries, stop,
                   observedStop, sinkVars, histVars, task_log>>

FinalizeDiscardingOnMismatch ==
    /\ phase = "finalizing"
    /\ LET actual_root_hash == RootHash(treeEntries)
       IN  IF actual_root_hash /= snapshot[1].expected_root_hash
              THEN /\ result' = "ErrRootHashMismatch"
                   /\ coord_log' = Append(coord_log, "root_hash")
                   /\ treeEntries' = {}
                   /\ UNCHANGED treeKind
              ELSE /\ treeKind' = "Ready"
                   /\ result' = "OkSome"
                   /\ coord_log' = coord_log \o <<"root_hash", "finalize">>
                   /\ UNCHANGED treeEntries
    /\ phase' = "returned"
    /\ UNCHANGED <<chunkVars, pgVars, recovered_version, optVars,
                   entry, snapshot, remaining, wpc, all_entries, stop,
                   observedStop, sinkVars, histVars, task_log>>

\* Lines 265-278: the root hash is compared with the expected one, and only
\* then the tree is finalized.
Finalize ==
    /\ phase = "finalizing"
    /\ LET actual_root_hash == RootHash(treeEntries)
       IN  IF actual_root_hash /= snapshot[1].expected_root_hash
              THEN /\ result' = "ErrRootHashMismatch"
                   /\ coord_log' = Append(coord_log, "root_hash")
                   /\ UNCHANGED treeKind
              ELSE /\ treeKind' = "Ready"
                   /\ result' = "OkSome"
                   /\ coord_log' = coord_log \o <<"root_hash", "finalize">>
    /\ phase' = "returned"
    /\ UNCHANGED <<chunkVars, pgVars, treeEntries, recovered_version, optVars,
                   entry, snapshot, remaining, wpc, all_entries, stop,
                   observedStop, sinkVars, histVars, task_log>>

\* ---------------------------------------------------------- specifications

InitChunks ==
    /\ log_count \in LogCounts
    /\ count = -1
    /\ iter_i = -1
    /\ ranges = <<>>
    /\ panicked = FALSE
    /\ pgEntries = <<>>
    /\ pgRootHash = RootHash({})
    /\ pgSnapshotBatch = 0
    /\ treeKind = "Empty"
    /\ treeEntries = {}
    /\ recovered_version = SnapshotBatch
    /\ chunk_count = 1
    /\ concurrency_limit = 1
    /\ pool_max_size = 1
    /\ RunVarsIdle

NextChunks ==
    \/ ChunkCountCall /\ UNCHANGED <<pgVars, treeVars, optVars, runVars, sinkVars, histVars, logVars>>
    \/ HashedKeyRangesCall /\ UNCHANGED <<pgVars, treeVars, optVars, runVars, sinkVars, histVars, logVars>>
    \/ IteratorNext /\ UNCHANGED <<pgVars, treeVars, optVars, runVars, sinkVars, histVars, logVars>>

SpecChunks == InitChunks /\ [][NextChunks]_vars

Init ==
    /\ ChunkVarsIdle
    /\ pgEntries \in Snapshots
    /\ pgRootHash = RootHash(SnapshotTree(pgEntries))
    /\ pgSnapshotBatch = 0
    /\ treeKind \in {"Empty", "Recovering", "Ready"}
    /\ treeEntries = IF treeKind = "Ready" THEN SnapshotTree(pgEntries) ELSE {}
    /\ recovered_version = SnapshotBatch
    /\ chunk_count \in 1..MaxChunkCount
    /\ concurrency_limit \in ConcurrencyLimits
    /\ pool_max_size \in PoolsFor(concurrency_limit)
    /\ RunVarsIdle

AcquirePermitStep == \E w \in Workers : AcquirePermit(w)
AcquireConnectionStep == \E w \in Workers : AcquireConnection(w)
LoadEntriesStep == \E w \in Workers : LoadEntries(w)
LockTreeStep == \E w \in Workers : LockTree(w)
PollAfterLockStep == \E w \in Workers : PollAfterLock(w)
ExtendTreeStep == \E w \in Workers : ExtendTree(w)
CompleteOrphanedExtendStep == \E w \in Workers : CompleteOrphanedExtend(w)

Next ==
    \/ EnsureReady
    \/ PgChangeRootHash
    \/ PgChangeEntry
    \/ Recover
    \/ Stop
    \/ AcquirePermitStep
    \/ AcquireConnectionStep
    \/ LoadEntriesStep
    \/ LockTreeStep
    \/ PollAfterLockStep
    \/ ExtendTreeStep
    \/ CompleteOrphanedExtendStep
    \/ JoinAll
    \/ Finalize

Spec == Init /\ [][Next]_vars

\* A step of the run itself: of one of its tasks or of the coordinator.
RunStep ==
    \/ AcquirePermitStep
    \/ AcquireConnectionStep
    \/ LoadEntriesStep
    \/ LockTreeStep
    \/ PollAfterLockStep
    \/ ExtendTreeStep
    \/ JoinAll
    \/ Finalize

\* The scheduling the runtime guarantees: as long as some task or the
\* coordinator can go on (a free permit, connection or gate with a task
\* waiting for it, a query or an extend under way, try_join_all ready to
\* return), one of them does. Nothing obliges the environment to send a stop
\* signal, change the store or call recover again.
Fairness == WF_vars(RunStep)

SpecFair == Init /\ [][Next]_vars /\ Fairness


\* ------------------------------------------------------------------ claims

\* The root hash recorded for a snapshot whose metadata matches its entries.
TrueRootHash == RootHash(SnapshotTree(pgEntries))

ExpectedRootHash == snapshot[1].expected_root_hash

\* What one uninterrupted run leaves in a fresh tree: every chunk's entries
\* folded in, chunk by chunk.
RECURSIVE FoldChunks(_, _)
FoldChunks(tree, i) ==
    IF i > chunk_count THEN tree
    ELSE FoldChunks(
            TreeExtend(tree, GetTreeEntriesForMiniblock(
                                pgEntries, HashedKeyRanges(chunk_count)[i])),
            i + 1)

FreshRunTree == FoldChunks({}, 1)

ExtendedThisRun == { w \in Workers : wpc[w] = "done_ok" }

\* Two entries next to each other in `entries` have the same hashed key.
ContainsAdjacentDuplicate(entries) ==
    \E i, j \in DOMAIN entries : j = i + 1 /\ entries[i].key = entries[j].key

\* C1 (resume correctness): when every earlier run on the tree was cancelled
\* (returned Ok(None)) and the current run, with the same chunk count, joins
\* its workers without observing the stop flag, then - the metadata's root
\* hash being that of the snapshot - it returns Ok(Some(tree)) and the tree
\* holds exactly what one uninterrupted run on a fresh tree produces.
C1_ResumeCorrectness ==
    ( /\ phase = "returned"
      /\ history = "cancelled"
      /\ observedStop = "false"
      /\ ExpectedRootHash = TrueRootHash )
    => /\ result = "OkSome"
       /\ treeKind = "Ready"
       /\ treeEntries = FreshRunTree
       /\ RootHash(treeEntries) = RootHash(FreshRunTree)

\* A resumed run that finalizes after chunks were folded both by a cancelled
\* run and by itself.
C1_Witness ==
    /\ phase = "returned"
    /\ history = "cancelled"
    /\ result = "OkSome"
    /\ started /= <<>>
    /\ started[2] >= 1
    /\ ExtendedThisRun /= {}

\* C2 (root hash gate): a tree that recover made Ready has the expected root
\* hash; and a run whose coordinator saw no stop signal and whose tree has
\* another root hash returns RootHashMismatch and leaves the tree Recovering.
C2_RootHashGate ==
    /\ (entry = "recover" /\ treeKind = "Ready")
        => RootHash(treeEntries) = ExpectedRootHash
    /\ ( /\ entry = "recover"
         /\ phase = "returned"
         /\ observedStop = "false"
         /\ RootHash(treeEntries) /= ExpectedRootHash )
        => (result = "ErrRootHashMismatch" /\ treeKind = "Recovering")
    /\ result = "ErrRootHashMismatch" => treeKind = "Recovering"

\* The workers folded the whole (consistent) snapshot, the metadata holds
\* another root hash, and the run ended with RootHashMismatch.
C2_Witness ==
    /\ result = "ErrRootHashMismatch"
    /\ treeEntries = SnapshotTree(pgEntries)
    /\ ExtendedThisRun /= {}
    /\ treeKind = "Recovering"

\* C3 (any chunk count, any concurrency): the first run on a fresh tree that
\* joins its workers without a stop signal, on a snapshot whose metadata
\* matches its entries, returns Ok(Some(tree)), and the tree holds exactly the
\* snapshot's entries, however the workers interleaved.
C3_FreshRunRecoversSnapshot ==
    ( /\ phase = "returned"
      /\ entry = "recover"
      /\ history = "none"
      /\ observedStop = "false"
      /\ ExpectedRootHash = TrueRootHash )
    => /\ result = "OkSome"
       /\ treeKind = "Ready"
       /\ treeEntries = SeqRange(pgEntries)
       /\ RootHash(treeEntries) = ExpectedRootHash

\* Two workers ran under a concurrency limit of two and the run finalized.
C3_Witness ==
    /\ phase = "returned"
    /\ history = "none"
    /\ result = "OkSome"
    /\ concurrency_limit = 2
    /\ chunk_count >= 2
    /\ Cardinality(ExtendedThisRun) = 2

\* C4 (chunk partition): for every count from 1 to MaxCount the iterator
\* yields, without panicking, exactly `count` ranges: the first starts at 0,
\* the last ends at the largest key, and each starts one after the end of
\* the one before.
C4_ChunkPartition ==
    /\ count >= 1 => ~panicked
    /\ (iter_i >= 0) => (Len(ranges) = iter_i /\ iter_i <= count)
    /\ (count >= 1 /\ iter_i = count)
        => /\ Len(ranges) = count
           /\ ranges[1].start = 0
           /\ ranges[count].end = KeyMax
           /\ \A i \in 1..count : ranges[i].start <= ranges[i].end
           /\ \A i \in 1..(count - 1) : ranges[i + 1].start = ranges[i].end + 1

\* A count that does not divide the key space, fully iterated.
C4_Witness ==
    /\ count = 7
    /\ iter_i = count
    /\ Len(ranges) = 7

\* C5 (chunk count derivation): chunk_count is max(1, ceil(log_count /
\* 200000)), and so hashed_key_ranges is never called with 0.
C5_ChunkCountAtLeastOne ==
    /\ count /= -1
        => count = (IF log_count = 0 THEN 1
                    ELSE ((log_count - 1) \div DESIRED_CHUNK_SIZE) + 1)
    /\ ~panicked

\* C6 (cancellation outcome): when the coordinator finds the stop flag set
\* after all tasks completed, recover returns Ok(None) - not a root hash
\* error, not a finalized tree - and the tree stays Recovering; Ok(None) is
\* returned in no other case.
C6_CancellationOutcome ==
    /\ (phase = "returned" /\ observedStop = "true")
        => (result = "OkNone" /\ treeKind = "Recovering")
    /\ result = "OkNone" => (observedStop = "true" /\ treeKind = "Recovering")

\* Cancelled with every chunk folded in and the root hash as expected.
C6_Witness ==
    /\ result = "OkNone"
    /\ treeEntries /= {}
    /\ treeEntries = SnapshotTree(pgEntries)
    /\ RootHash(treeEntries) = ExpectedRootHash
    /\ treeKind = "Recovering"

\* C7 (divergence detection), as claimed: a run with chunks left to recover,
\* none of them corrupted, that reads another expected root hash than the run
\* before it fails with SnapshotDivergence and extends nothing.
C7_DivergenceDetectedUpFront ==
    ( /\ phase = "returned"
      /\ root_changed
      /\ remaining /= <<>>
      /\ ~ContainsAdjacentDuplicate(pgEntries)
      /\ observedStop /= "true" )
        => (result = "ErrSnapshotDivergence" /\ ExtendedThisRun = {})

\* C7, amended: a run that reads another expected root hash than the run
\* before it, one that is not the root hash of the snapshot's entries, never
\* finalizes the tree and never reports SnapshotDivergence; unless cancelled
\* or stopped by a corrupted chunk it ends with RootHashMismatch.
C7_RootChangeCaughtAtFinalize ==
    (phase = "returned" /\ root_changed /\ ExpectedRootHash /= TrueRootHash)
        => /\ treeKind = "Recovering"
           /\ result \in {"OkNone", "ErrSnapshotCorruption", "ErrRootHashMismatch"}
           /\ observedStop = "false" => result = "ErrRootHashMismatch"

\* The second run folded chunks into the tree before it failed at the end.
C7_Witness ==
    /\ phase = "returned"
    /\ root_changed
    /\ result = "ErrRootHashMismatch"
    /\ ExtendedThisRun /= {}

\* C8 (recovering-state dispatch): ensure_ready on a Recovering tree returns
\* SnapshotDivergence when the store holds a snapshot batch other than the
\* recovered version, SnapshotAbsent when it holds none, and leaves the tree
\* untouched.
C8_RecoveringDispatch ==
    (entry = "ensure_ready" /\ phase = "returned" /\ treeKind = "Recovering")
        => /\ pgSnapshotBatch \notin {0, recovered_version}
                => result = "ErrSnapshotDivergence"
           /\ pgSnapshotBatch = 0 => result = "ErrSnapshotAbsent"
           /\ treeEntries = {}

\* C9 (corrupted chunk), as claimed: a worker whose loaded entries hold two
\* neighbours with the same key returns an error, and recover returns it.
C9_CorruptedChunkAlwaysFails ==
    \A w \in Workers :
        ContainsAdjacentDuplicate(all_entries[w])
            => (wpc[w] = "failed" /\ result = "ErrSnapshotCorruption")

\* C9, amended: such a worker returns the error unless it found the stop flag
\* set at the poll after the load (then it returns Ok unvalidated); either
\* way it never requests the tree gate and none of its entries reaches the
\* tree; when it fails, recover has returned SnapshotCorruption with the tree
\* still Recovering.
C9_CorruptedChunkNeverExtends ==
    \A w \in Workers :
        ContainsAdjacentDuplicate(all_entries[w])
            => /\ wpc[w] \in {"failed", "done_c2"}
               /\ wpc[w] = "done_c2" => stop
               /\ SeqRange(all_entries[w]) \cap treeEntries = {}
               /\ wpc[w] = "failed"
                    => /\ phase = "returned"
                       /\ result = "ErrSnapshotCorruption"
                       /\ treeKind = "Recovering"

\* A corrupted chunk failed the run after another chunk had been folded in.
C9_Witness ==
    \E w \in Workers :
        /\ ContainsAdjacentDuplicate(all_entries[w])
        /\ wpc[w] = "failed"
        /\ result = "ErrSnapshotCorruption"
        /\ ExtendedThisRun /= {}

Positions(log, call) == { i \in DOMAIN log : log[i] = call }

\* The chunk_recovered events the sink has received in the current run.
RecoveredEvents ==
    UNION { { <<w, i>> : i \in Positions(task_log[w], "chunk_recovered") } :
                w \in Workers }

\* C11 (chunk_recovered follows extend): every chunk_recovered event of a
\* chunk comes, in the log of its task, after a completed extend and after
\* the release of the tree gate, and the tree then holds the chunk's entries;
\* a task that returned without extending (cancelled or not) has emitted none.
C11_RecoveredFollowsExtend ==
    \A w \in Workers :
        \A i \in Positions(task_log[w], "chunk_recovered") :
            /\ \E j, k \in 1..(i - 1) :
                    /\ j < k
                    /\ task_log[w][j] = "extend"
                    /\ task_log[w][k] = "unlock"
            /\ wpc[w] = "done_ok"
            /\ SeqRange(all_entries[w]) \subseteq treeEntries

\* The chunks of the key space in which the snapshot has no entry.
EmptyChunks ==
    LET key_ranges == HashedKeyRanges(chunk_count)
    IN  { i \in 1..chunk_count :
            \A j \in DOMAIN pgEntries :
                ~InRange(pgEntries[j].key, key_ranges[i]) }

\* The first run on a fresh tree has returned Ok(Some(tree)), its coordinator
\* having seen no stop signal.
HappyPathReturned ==
    /\ entry = "recover"
    /\ phase = "returned"
    /\ history = "none"
    /\ observedStop = "false"
    /\ result = "OkSome"

\* C12 (event count on the happy path), as claimed: such a run, on a snapshot
\* that has entries, makes exactly one call recovery_started(chunk_count, 0)
\* and emits exactly chunk_count chunk_recovered events.
C12_HappyPathEventCount ==
    (HappyPathReturned /\ pgEntries /= <<>>)
        => /\ Cardinality(Positions(coord_log, "recovery_started")) = 1
           /\ started = <<chunk_count, 0>>
           /\ Cardinality(RecoveredEvents) = chunk_count

\* C12, amended: such a run makes exactly one call recovery_started(
\* chunk_count, e), e the number of chunks in which the snapshot has no
\* entry, and emits exactly chunk_count - e chunk_recovered events, one for
\* each of the other chunks; with no empty chunk these are (chunk_count, 0)
\* and chunk_count events.
C12_HappyPathEventsPerNonEmptyChunk ==
    HappyPathReturned
        => /\ Cardinality(Positions(coord_log, "recovery_started")) = 1
           /\ started = <<chunk_count, Cardinality(EmptyChunks)>>
           /\ Cardinality(RecoveredEvents) = chunk_count - Cardinality(EmptyChunks)
           /\ \A w \in Workers :
                Cardinality(Positions(task_log[w], "chunk_recovered"))
                    = IF w \in EmptyChunks THEN 0 ELSE 1
           /\ stop_threshold = 0
                => recovered_chunk_count = chunk_count

\* A happy path over three chunks of which one is empty: two events.
C12_Witness ==
    /\ HappyPathReturned
    /\ chunk_count = 3
    /\ Cardinality(EmptyChunks) = 1
    /\ Cardinality(RecoveredEvents) = 2
    /\ started = <<3, 1>>

\* C13 (progress report on resume): under concurrency limit 1, on a snapshot
\* with no empty chunk, a run whose sink (a TestEventListener with
\* stop_threshold k) has raised the stop flag at its k-th chunk_recovered
\* event folds exactly k chunks into the tree and returns Ok(None); and every
\* run on such a snapshot calls recovery_started(chunk_count, r), r the number
\* of chunks folded by all the runs before it.
C13_ProgressReportOnResume ==
    (entry = "recover" /\ concurrency_limit = 1 /\ EmptyChunks = {})
        => /\ ( /\ phase = "returned"
                /\ stop_threshold >= 1
                /\ processed_chunk_count >= stop_threshold )
                => /\ Cardinality(ExtendedThisRun) = stop_threshold
                   /\ result = "OkNone"
                   /\ Cardinality(treeEntries)
                        >= extended_before + stop_threshold
           /\ started /= <<>>
                => started = <<chunk_count, extended_before>>

\* The second run of a sequence: it reported one chunk as recovered, the one
\* the first run folded before its sink cancelled it, and was itself
\* cancelled by its sink after one more chunk.
C13_Witness ==
    /\ concurrency_limit = 1
    /\ EmptyChunks = {}
    /\ phase = "returned"
    /\ history = "cancelled"
    /\ stop_threshold = 1
    /\ processed_chunk_count >= 1
    /\ started = <<chunk_count, 1>>
    /\ extended_before = 1
    /\ Cardinality(ExtendedThisRun) = 1
    /\ result = "OkNone"

\* The tasks whose extend is in progress.
Extending == { w \in Workers : wpc[w] \in {"extend", "orphaned"} }

\* C14 (tree gate mutual exclusion): at most one task holds the tree gate and
\* at most one extend is in progress; and when the coordinator has read the
\* root hash or called finalize (or is about to), try_join_all has returned,
\* every task has finished and none holds the gate.
C14_TreeGateMutualExclusion ==
    /\ Cardinality(GateHolders) <= 1
    /\ Cardinality(Extending) <= 1
    /\ \A w \in Workers :
        Cardinality(Positions(task_log[w], "locked")) <= 1
    /\ ( \/ phase = "finalizing"
         \/ Positions(coord_log, "root_hash") /= {}
         \/ Positions(coord_log, "finalize") /= {} )
        => /\ Positions(coord_log, "try_join_all") /= {}
           /\ \A i \in Positions(coord_log, "root_hash") \cup Positions(coord_log, "finalize") :
                \E j \in Positions(coord_log, "try_join_all") : j < i
           /\ \A w \in Workers : wpc[w] \in Finished
           /\ GateHolders = {}
           /\ Extending = {}

\* One task is extending the tree while another waits for the gate.
C14_Witness ==
    \E w, v \in Workers :
        /\ wpc[w] = "extend"
        /\ wpc[v] = "lock"

\* Before the i-th call of a task's log: does the task hold a connection, and
\* has it requested the tree gate without having released it.
HeldConnectionAt(log, i) ==
    Cardinality(Positions(log, "access_storage") \cap 1..(i - 1))
        > Cardinality(Positions(log, "drop_storage") \cap 1..(i - 1))

WantedGateAt(log, i) ==
    Cardinality(Positions(log, "lock") \cap 1..(i - 1))
        > Cardinality(Positions(log, "unlock") \cap 1..(i - 1))

\* C15 (never a connection and the gate together): a task requests, is
\* granted and uses the tree gate only when it holds no connection to the
\* source store, and makes no call to the source store from the request of
\* the gate to its release; so no task waits for or holds the gate while it
\* holds a connection.
C15_NoConnectionWithGate ==
    /\ \A w \in Workers :
        \A i \in DOMAIN task_log[w] :
            /\ task_log[w][i] \in {"lock", "locked", "extend"}
                => ~HeldConnectionAt(task_log[w], i)
            /\ task_log[w][i] \in {"access_storage",
                                   "get_tree_entries_for_miniblock"}
                => ~WantedGateAt(task_log[w], i)
    /\ \A w \in ConnectionHolders : wpc[w] \notin (HoldsGate \cup {"lock"})

\* A task holds the gate, having dropped its connection before asking for
\* it, while another task holds a connection.
C15_Witness ==
    \E w, v \in Workers :
        /\ wpc[w] = "extend"
        /\ \E i, j \in DOMAIN task_log[w] :
            /\ i < j
            /\ task_log[w][i] = "drop_storage"
            /\ task_log[w][j] = "lock"
        /\ wpc[v] = "load"
        /\ HeldConnectionAt(task_log[v], Len(task_log[v]) + 1)

\* The snapshot's entries in chunk i, in key order, and whether a key is in
\* the tree.
EntriesInChunk(i) ==
    LET key_chunk == HashedKeyRange(chunk_count, i - 1)
    IN  SelectSeq(pgEntries, LAMBDA e : InRange(e.key, key_chunk))

KeyInTree(key) == \E t \in treeEntries : t.key = key

\* The chunks the claims call pending: those with a first entry in the
\* store whose key is not in the tree, in chunk order.
PendingChunks ==
    LET chunk_entries == [i \in 1..chunk_count |-> EntriesInChunk(i)]
    IN  SelectSeq([i \in 1..chunk_count |-> i],
                  LAMBDA i : /\ chunk_entries[i] /= <<>>
                             /\ ~KeyInTree(chunk_entries[i][1].key))

\* C16 (chunk filter result): as long as no task of the run has extended the
\* tree, the chunks filter_chunks returned are, in chunk order, exactly those
\* whose first entry exists in the store and whose first key is absent from
\* the tree; a chunk with no entry in the store, and one whose first key is
\* in the tree, has no task.
C16_ChunkFilterResult ==
    (entry = "recover" /\ phase = "running" /\ ExtendedThisRun = {})
        => /\ remaining = PendingChunks
           /\ \A i \in 1..(Len(remaining) - 1) : remaining[i] < remaining[i + 1]
           /\ \A w \in Workers :
                LET chunk_entries == EntriesInChunk(w)
                IN  (chunk_entries = <<>> \/ KeyInTree(chunk_entries[1].key))
                        => wpc[w] = "skipped"

\* A resumed run: one chunk was folded by the run before, one has no entry
\* in the store, and the filter returned what is left.
C16_Witness ==
    /\ entry = "recover"
    /\ phase = "running"
    /\ ExtendedThisRun = {}
    /\ history = "cancelled"
    /\ \E w \in Workers : EntriesInChunk(w) /= <<>> /\ wpc[w] = "skipped"
    /\ \E w \in Workers : EntriesInChunk(w) = <<>>
    /\ Len(remaining) >= 1

\* A chunk whose first key is in the tree with another value or leaf index
\* than the store's first entry of the chunk.
DivergentStart ==
    /\ treeEntries /= {}
    /\ \E i \in 1..chunk_count :
        LET chunk_entries == EntriesInChunk(i)
        IN  /\ chunk_entries /= <<>>
            /\ \E t \in treeEntries :
                /\ t.key = chunk_entries[1].key
                /\ (t.value /= chunk_entries[1].value
                        \/ t.leaf_index /= chunk_entries[1].leaf_index)

\* C17 (chunk filter divergence): no run gets past the filter while a chunk
\* start diverges; the run that finds one returns SnapshotDivergence with
\* recovery_started not called, no task started (no permit, no event, no
\* call to the store or the tree) and the tree as it was, in recovery.
C17_ChunkFilterDivergence ==
    /\ (entry = "recover" /\ phase \in {"running", "finalizing"})
        => ~DivergentStart
    /\ (entry = "recover" /\ result = "ErrSnapshotDivergence")
        => /\ phase = "returned"
           /\ DivergentStart
           /\ coord_log = <<"filter_chunks">>
           /\ started = <<>>
           /\ \A w \in Workers : task_log[w] = <<>> /\ wpc[w] = "skipped"
           /\ Extended = {}
           /\ treeKind = "Recovering"

\* The store's first entry of a folded chunk changed between two runs, and
\* the run after it was refused.
C17_Witness ==
    /\ entry = "recover"
    /\ phase = "returned"
    /\ result = "ErrSnapshotDivergence"
    /\ treeEntries /= {}
    /\ DivergentStart

\* The tasks that loaded a chunk with two neighbours of the same key.
CorruptedLoads ==
    { w \in Workers : ContainsAdjacentDuplicate(all_entries[w]) }

\* C18 (worker phase order), as claimed: the validation comes before the
\* second poll of the stop flag, so a task that loaded a corrupted chunk has
\* failed with SnapshotCorruption also when the stop flag was raised during
\* the load, and has emitted no chunk_recovered.
C18_ValidationBeforeSecondPoll ==
    \A w \in CorruptedLoads :
        stop => /\ wpc[w] = "failed"
                /\ Positions(task_log[w], "chunk_recovered") = {}

\* C18, amended: the second poll comes after the load and before the
\* validation. A task that loaded a corrupted chunk with the stop flag raised
\* has returned Ok at that poll, unvalidated: its last call is
\* chunk_recovered and the run does not report SnapshotCorruption; with the
\* flag down it has failed and the run has returned SnapshotCorruption.
C18_SecondPollBeforeValidation ==
    \A w \in CorruptedLoads :
        /\ stop => /\ wpc[w] = "done_c2"
                   /\ task_log[w][Len(task_log[w])] = "chunk_recovered"
                   /\ task_log[w][Len(task_log[w]) - 1] = "drop_storage"
                   /\ result \in {"none", "OkNone"}
        /\ ~stop => /\ wpc[w] = "failed"
                    /\ task_log[w][Len(task_log[w])] = "drop_storage"
                    /\ result = "ErrSnapshotCorruption"

\* The stop flag rose during the load of a corrupted chunk, and the run
\* returned Ok(None).
C18_Witness ==
    /\ phase = "returned"
    /\ result = "OkNone"
    /\ \E w \in CorruptedLoads : wpc[w] = "done_c2"

InRun == entry = "recover" /\ phase \in {"running", "finalizing", "returned"}

\* recovery_started comes after the chunk filter and before any call of any
\* task; in every task chunk_started comes after the permit and before the
\* task's chunk_recovered.
EventOrder ==
    /\ \A i \in Positions(coord_log, "recovery_started") :
            \E j \in Positions(coord_log, "filter_chunks") : j < i
    /\ \A w \in Workers :
        /\ task_log[w] /= <<>>
            => /\ Positions(coord_log, "recovery_started") /= {}
               /\ task_log[w][1] = "acquire"
               /\ Len(task_log[w]) >= 2
               /\ task_log[w][2] = "chunk_started"
        /\ Cardinality(Positions(task_log[w], "chunk_started")) <= 1
        /\ \A i \in Positions(task_log[w], "chunk_recovered") :
                \E j \in Positions(task_log[w], "chunk_started") : j < i

\* C20 (recovery_started once per run), as claimed: every run of recover
\* calls recovery_started exactly once, and the events keep their order.
C20_RecoveryStartedOncePerRun ==
    InRun => /\ Cardinality(Positions(coord_log, "recovery_started")) = 1
             /\ EventOrder

\* C20, amended: a run of recover calls recovery_started exactly once when
\* its chunk filter succeeds and not at all when the filter fails (the run
\* then returns SnapshotDivergence); the call comes after the filter and
\* before any task acquires a permit or emits chunk_started, and for every
\* chunk chunk_started precedes chunk_recovered.
C20_RecoveryStartedOncePerFilteredRun ==
    InRun => /\ Cardinality(Positions(coord_log, "recovery_started"))
                    = IF result = "ErrSnapshotDivergence" THEN 0 ELSE 1
             /\ Positions(coord_log, "recovery_started") /= {}
                    => started /= <<>>
             /\ EventOrder

\* Two tasks ran under two permits, each emitted chunk_started and then
\* chunk_recovered, and the run returned Ok(Some(tree)).
C20_Witness ==
    /\ InRun
    /\ result = "OkSome"
    /\ Cardinality(RecoveredEvents) = 2
    /\ concurrency_limit = 2
    /\ \A w \in ExtendedThisRun :
        Positions(task_log[w], "chunk_started") = {2}

\* C21 (no rollback): no step of any run - an extend, a cancellation, a
\* worker error, a filter error, a root hash mismatch, a restart - removes or
\* alters an entry the tree holds, and none changes the recovered version:
\* the tree's entries only grow.
C21_NoRollback ==
    [][ /\ treeEntries \subseteq treeEntries'
        /\ \A t \in treeEntries' :
                (\E u \in treeEntries : u.key = t.key) => t \in treeEntries
        /\ recovered_version' = recovered_version ]_vars

\* After a cancelled run that folded a chunk, a run folded the rest and
\* failed at the root hash: the tree holds the whole snapshot.
C21_Witness ==
    /\ phase = "returned"
    /\ history = "cancelled"
    /\ result = "ErrRootHashMismatch"
    /\ extended_before >= 1
    /\ ExtendedThisRun /= {}
    /\ treeKind = "Recovering"
    /\ treeEntries = SnapshotTree(pgEntries)
    /\ recovered_version = SnapshotBatch

\* The positions of a chunk's entries whose key the tree holds.
PresentOf(chunk_entries) ==
    { j \in DOMAIN chunk_entries : KeyInTree(chunk_entries[j].key) }

\* C22 (chunk atomicity): under one chunk count, whatever runs were
\* cancelled, failed or resumed, the tree holds of every chunk either the key
\* of each of its entries or of none - and, the snapshot being what it was
\* when the recovery began, the entries themselves (one per key); so a chunk
\* whose first key is in the tree is wholly there, and a chunk for which a
\* run that got past the filter created no task is empty in the store or
\* wholly in the tree.
C22_ChunkAtomicity ==
    treeEntries /= {}
        => \A i \in 1..chunk_count :
            LET chunk_entries == EntriesInChunk(i)
                present == PresentOf(chunk_entries)
            IN  /\ present = {} \/ present = DOMAIN chunk_entries
                /\ (present /= {} /\ ~SnapshotChanged(pgEntries))
                    => SnapshotTree(chunk_entries) \subseteq treeEntries
                /\ chunk_entries /= <<>>
                    => ( /\ KeyInTree(chunk_entries[1].key)
                            => present = DOMAIN chunk_entries
                         /\ ( /\ entry = "recover"
                              /\ phase \in {"running", "finalizing"}
                              /\ wpc[i] = "skipped" )
                            => present = DOMAIN chunk_entries )

\* A resumed run skipped a chunk of two entries, both in the tree since the
\* run before.
C22_Witness ==
    /\ entry = "recover"
    /\ phase = "running"
    /\ history = "cancelled"
    /\ \E i \in 1..chunk_count :
        /\ Len(EntriesInChunk(i)) >= 2
        /\ wpc[i] = "skipped"
        /\ SeqRange(EntriesInChunk(i)) \subseteq treeEntries

\* C23 (cancellation cuts off extends): the stop flag, once raised, stays
\* raised until the run is over; while it is raised no task passes the poll
\* behind the tree gate into extend, so the only extend still applied is that
\* of the one task that was past this poll already, and no extend is in
\* progress once it is done; and a task leaves its first poll with Ok, no
\* entries loaded and the tree untouched, exactly when the flag is raised.
C23_CancellationCutsOffExtends ==
    [][ /\ (stop /\ ~stop') => (phase = "returned" /\ coord_log' /= coord_log)
        /\ stop =>
            /\ Cardinality(Extending) <= 1
            /\ \A w \in DOMAIN wpc' : wpc'[w] = "extend" => wpc[w] = "extend"
            /\ treeEntries' /= treeEntries
                => \E w \in Workers :
                    /\ wpc[w] = "extend"
                    /\ wpc'[w] = "done_ok"
                    /\ treeEntries' = TreeExtend(treeEntries, all_entries[w])
                    /\ \A v \in Workers : wpc'[v] \notin {"extend", "orphaned"}
        /\ \A w \in Workers :
            (wpc[w] = "conn" /\ wpc'[w] /= "conn")
                => /\ stop <=> wpc'[w] = "done_c1"
                   /\ wpc'[w] = "done_c1"
                        => /\ all_entries'[w] = <<>>
                           /\ Positions(task_log'[w],
                                        "get_tree_entries_for_miniblock") = {}
                           /\ treeEntries' = treeEntries ]_vars

\* The flag is raised: one task is past its last poll, with its extend in
\* progress, and another has returned at its first poll with nothing loaded.
C23_Witness ==
    /\ stop
    /\ \E w, v \in Workers :
        /\ wpc[w] = "extend"
        /\ wpc[v] = "done_c1"
        /\ all_entries[v] = <<>>

\* A task waits for a resource that is not free.
Blocked(w) ==
    \/ wpc[w] = "permit" /\ Cardinality(PermitHolders) >= concurrency_limit
    \/ wpc[w] = "conn" /\ Cardinality(ConnectionHolders) >= pool_max_size
    \/ wpc[w] = "lock" /\ GateHolders /= {}

\* The tasks of the run that have not ended, and those that have: returned,
\* or dropped by try_join_all.
Unfinished == { w \in Workers : wpc[w] \in HoldsPermit \cup {"permit"} }

Ended(w) ==
    /\ w \in Workers
    /\ wpc[w] \in Finished \cup {"failed", "dropped", "orphaned", "orphan_done"}

\* While tasks are unfinished, one of them is not blocked.
NoDeadlock ==
    (phase = "running" /\ Unfinished /= {})
        => \E w \in Unfinished : ~Blocked(w)

\* C24 (termination without deadlock), as claimed: every task of a run
\* acquires a permit, a connection and the tree gate and completes: when
\* recover has returned, every task it created has been granted all three
\* and has returned Ok.
C24_EveryTaskTakesTheGate ==
    (entry = "recover" /\ phase = "returned")
        => \A w \in Workers :
            wpc[w] /= "skipped"
                => /\ Positions(task_log[w], "acquire") /= {}
                   /\ Positions(task_log[w], "access_storage") /= {}
                   /\ Positions(task_log[w], "locked") /= {}
                   /\ wpc[w] \in Finished

\* C24, amended: under fair scheduling no run of recover stays in progress
\* for ever: it returns (Ok(Some), Ok(None) or an error), and when it has
\* returned every task has ended: it returned - after its extend, with Ok at
\* a poll of the stop flag, or with an error - or was dropped at another
\* task's error, so none is left waiting for a permit, a connection or the
\* tree gate; and in no state of a run are all unfinished tasks blocked.
C24_TerminationWithoutDeadlock ==
    /\ []NoDeadlock
    /\ [](phase = "returned" => \A w \in Workers : Ended(w))
    /\ []((entry = "recover" /\ phase = "returned")
            => result \in {"OkSome", "OkNone", "ErrSnapshotDivergence",
                           "ErrSnapshotCorruption", "ErrRootHashMismatch"})
    /\ []<>(phase \notin {"running", "finalizing"})

\* Two tasks hold the two permits and one of them the only connection, for
\* which the other waits.
C24_Witness ==
    /\ phase = "running"
    /\ concurrency_limit = 2
    /\ pool_max_size = 1
    /\ \E w, v \in Workers :
        /\ wpc[w] = "load"
        /\ wpc[v] = "conn"
        /\ Blocked(v)

=============================================================================
